---- MODULE Spec2Model ----
(***************************************************************************)
(* A model of apitry.py: a FastAPI application that loads TRIALDB.csv once *)
(* into the module-level frame df and serves four read-only GET routes.    *)
(* Route functions are plain `def`s, so the server runs them on worker     *)
(* threads; each thread is modelled with its own program counter and       *)
(* locals, and df is the only state the threads share.                     *)
(*                                                                         *)
(* Text is modelled as a sequence of one-character strings.  Cells of the  *)
(* table are taken to be present (no missing values).                      *)
(***************************************************************************)
EXTENDS Integers, Sequences, FiniteSets, TLC

VARIABLES df, th

vars == <<df, th>>

\* ------------------------------------------------------------- bounds
MaxRows == 3
MaxPage == 2
MaxSize == 2
NThreads == 2
MaxConcRows == 1

\* -------------------------------------------------- program constants
PageMin == 1
SizeMin == 1
SizeMax == 100

\* ---------------------------------------------------------- utilities
Min(a, b) == IF a < b THEN a ELSE b
Max(a, b) == IF a > b THEN a ELSE b

SeqsUpTo(S, n) == UNION {[1..k -> S] : k \in 0..n}

\* ---------------------------------------------------------- text
Lower(c) == CASE c = "A" -> "a" [] c = "B" -> "b" [] OTHER -> c
Upper(c) == CASE c = "a" -> "A" [] c = "b" -> "B" [] OTHER -> c

StrLower(s) == [i \in 1..Len(s) |-> Lower(s[i])]
StrUpper(s) == [i \in 1..Len(s) |-> Upper(s[i])]

\* re.compile(pat, re.IGNORECASE): over the characters used here the only
\* pattern that does not compile is one that opens a group, since no
\* character closes it ("missing ), unterminated subpattern").
RegexCompiles(pat) == \A i \in 1..Len(pat) : pat[i] # "("

\* One pattern character against one text character under re.IGNORECASE:
\* "." is the wildcard, every other character stands for itself.
RegexCharMatch(p, c) == p = "." \/ Lower(p) = Lower(c)

\* pat.search(s) is not None, for a pattern that compiled.
RegexSearch(pat, s) ==
    \E off \in 0..(Len(s) - Len(pat)) :
        \A j \in 1..Len(pat) : RegexCharMatch(pat[j], s[off + j])

\* ---------------------------------------------------------- the table
Columns == {"INSID", "INSNAME", "CREDDESC", "CREDLEV"}

Rows ==
    { [INSID |-> 1, INSNAME |-> <<"a", "B">>, CREDDESC |-> <<"a">>,      CREDLEV |-> 2],
      [INSID |-> 1, INSNAME |-> <<"b", ".">>, CREDDESC |-> <<"A", "b">>, CREDLEV |-> 1],
      [INSID |-> 2, INSNAME |-> <<"a", "B">>, CREDDESC |-> <<"B">>,      CREDLEV |-> 2] }

\* pd.DataFrame(): no columns, no rows.
EmptyFrame == [columns |-> {}, rows |-> <<>>]

\* pd.read_csv('TRIALDB.csv') with the header stripped.
LoadedFrames(n) == {[columns |-> Columns, rows |-> r] : r \in SeqsUpTo(Rows, n)}

\* The frame df after the module body has run: the file read, or the empty
\* frame of the FileNotFoundError branch.
StartupFrames(n) == LoadedFrames(n) \cup {EmptyFrame}

\* ---------------------------------------------------------- requests
\* An optional query parameter: absent, or present with a text value.
Unset == [given |-> FALSE, val |-> <<>>]
Given(v) == [given |-> TRUE, val |-> v]

FilterValues ==
    { <<>>, <<"a">>, <<".">>, <<"(">>, <<"A", "b">> }

FilterArgs == {Unset} \cup {Given(v) : v \in FilterValues}

Pages == 0..MaxPage
Sizes == (0..MaxSize) \cup {SizeMax, SizeMax + 1}
InsidArgs == {1, 2, 9}

NoReq ==
    [kind |-> "none", page |-> 0, size |-> 0,
     insname |-> Unset, creddesc |-> Unset, insid |-> 0]

RecordsRequests ==
    {[NoReq EXCEPT !.kind = "records", !.page = p, !.size = s,
                   !.insname = n, !.creddesc = c] :
        p \in Pages, s \in Sizes, n \in FilterArgs, c \in FilterArgs}

ByInsidRequests == {[NoReq EXCEPT !.kind = "by_insid", !.insid = i] : i \in InsidArgs}

Requests ==
    RecordsRequests \cup ByInsidRequests
        \cup {[NoReq EXCEPT !.kind = "stats"], [NoReq EXCEPT !.kind = "root"]}

\* The requests of the concurrent specification.
ConcRequests ==
    { [NoReq EXCEPT !.kind = "records", !.page = 1, !.size = 1,
                    !.insname = Given(<<"a">>)],
      [NoReq EXCEPT !.kind = "records", !.page = 1, !.size = 1,
                    !.creddesc = Given(<<"B">>)],
      [NoReq EXCEPT !.kind = "records", !.page = 1, !.size = 1,
                    !.insname = Given(<<"(">>)],
      [NoReq EXCEPT !.kind = "by_insid", !.insid = 1],
      [NoReq EXCEPT !.kind = "stats"],
      [NoReq EXCEPT !.kind = "root"] }

\* ---------------------------------------------------------- responses
NoResp == [status |-> 0]

Ok(body) == [status |-> 200, body |-> body]

\* raise HTTPException(status_code=404, detail=f"No records found for INSID {insid}")
NotFound(insid) ==
    [status |-> 404,
     body |-> [detail |-> [text |-> "No records found for INSID", insid |-> insid]]]

\* A query parameter outside its Query(...) constraints.
Unprocessable == [status |-> 422, body |-> [detail |-> "validation error"]]

\* An exception that leaves the route function.
ServerError(exc) == [status |-> 500, body |-> "Internal Server Error", raised |-> exc]

\* ---------------------------------------------------------- get_records
\* Validate with the lower bound of page off by one (ge=0).
Validate_PageFromZero(req) ==
    /\ req.page >= PageMin - 1
    /\ req.size >= SizeMin
    /\ req.size <= SizeMax

\* page: Query(1, ge=1), size: Query(10, ge=1, le=100)
Validate(req) ==
    /\ req.page >= PageMin
    /\ req.size >= SizeMin
    /\ req.size <= SizeMax

\* `if insname:` -- None and the empty string are both false.
Truthy(arg) == arg.given /\ arg.val # <<>>

\* seq[start:end] for integers start, end.
PySlice(seq, start, end) ==
    LET n == Len(seq)
        s == IF start < 0 THEN Max(start + n, 0) ELSE Min(start, n)
        e == IF end < 0 THEN Max(end + n, 0) ELSE Min(end, n)
    IN  IF s < e THEN SubSeq(seq, s + 1, e) ELSE <<>>

\* frame[frame[col].str.contains(pat, case=False, na=False)]: the column
\* lookup, then the compilation of the pattern, then the row mask.
FilterColumn(frame, col, pat) ==
    IF col \notin frame.columns
    THEN [raised |-> "KeyError", frame |-> frame]
    ELSE IF ~RegexCompiles(pat)
    THEN [raised |-> "re.error", frame |-> frame]
    ELSE LET Keep(r) == RegexSearch(pat, r[col])
         IN  [raised |-> "", frame |-> [frame EXCEPT !.rows = SelectSeq(frame.rows, Keep)]]

\* `if arg: filtered_df = filtered_df[...]`
FilterStep(frame, col, arg) ==
    IF Truthy(arg) THEN FilterColumn(frame, col, arg.val)
    ELSE [raised |-> "", frame |-> frame]

PageStart(page, size) == (page - 1) * size

\* The pagination and the response of get_records.
Paginate(frame, page, size) ==
    LET start == PageStart(page, size)
        end == start + size
        results == PySlice(frame.rows, start, end)
    IN  Ok([page |-> page, size |-> Len(results),
            total_filtered |-> Len(frame.rows), data |-> results])

\* ModuleDf had the filter been applied to the module's frame in place.
ModuleDf_InPlace(d, local) == local

\* The assignments of get_records bind its local filtered_df; the module's
\* df is what it was.
ModuleDf(d, local) == d

\* get_records run from its first line to its return, on frame d.
GetRecords(d, req) ==
    LET s1 == FilterStep(d, "INSNAME", req.insname)
        s2 == FilterStep(s1.frame, "CREDDESC", req.creddesc)
    IN  IF s1.raised # "" THEN ServerError(s1.raised)
        ELSE IF s2.raised # "" THEN ServerError(s2.raised)
        ELSE Paginate(s2.frame, req.page, req.size)

\* ---------------------------------------------------------- get_records_by_insid
\* InsidMask with an ordering comparison in place of equality.
InsidMask_AtLeast(row, insid) == row.INSID >= insid

\* df['INSID'] == insid
InsidMask(row, insid) == row.INSID = insid

GetRecordsByInsid(d, insid) ==
    IF "INSID" \notin d.columns THEN ServerError("KeyError")
    ELSE LET Keep(r) == InsidMask(r, insid)
             results == SelectSeq(d.rows, Keep)
         IN  IF results = <<>> THEN NotFound(insid)
             ELSE Ok([insid |-> insid, count |-> Len(results), data |-> results])

\* ---------------------------------------------------------- get_stats
ColumnOf(d, col) == [i \in 1..Len(d.rows) |-> d.rows[i][col]]

\* Series.nunique()
NUnique(series) == Cardinality({series[i] : i \in 1..Len(series)})

\* Series.unique().tolist(): order of first appearance.
RECURSIVE Unique(_)
Unique(series) ==
    IF series = <<>> THEN <<>>
    ELSE LET n == Len(series)
             front == Unique(SubSeq(series, 1, n - 1))
         IN  IF \E i \in 1..Len(front) : front[i] = series[n]
             THEN front ELSE Append(front, series[n])

GetStats(d) ==
    IF ~({"INSNAME", "CREDDESC", "CREDLEV"} \subseteq d.columns)
    THEN ServerError("KeyError")
    ELSE Ok([unique_institutions |-> NUnique(ColumnOf(d, "INSNAME")),
             unique_credentials |-> NUnique(ColumnOf(d, "CREDDESC")),
             credential_levels |-> Unique(ColumnOf(d, "CREDLEV"))])

\* ---------------------------------------------------------- read_root
ReadRoot(d) ==
    Ok([message |-> "Welcome to the Institution Data API",
        total_records |-> Len(d.rows),
        endpoints |-> [all_data |-> "/records",
                       search_by_id |-> "/records/{insid}",
                       docs |-> "/docs"]])

\* The response to req from a server whose frame is d, the request alone.
Response(d, req) ==
    CASE req.kind = "records" ->
            IF Validate(req) THEN GetRecords(d, req) ELSE Unprocessable
      [] req.kind = "by_insid" -> GetRecordsByInsid(d, req.insid)
      [] req.kind = "stats" -> GetStats(d)
      [] OTHER -> ReadRoot(d)

\* ---------------------------------------------------------- threads
Idle == [pc |-> "idle", req |-> NoReq, filtered_df |-> EmptyFrame, resp |-> NoResp]

Finish(t, resp) ==
    th' = [th EXCEPT ![t].pc = "done", ![t].resp = resp]

\* A request arrives on a free worker; the framework checks the declared
\* parameter constraints before the route function is entered.
Receive(t, req) ==
    /\ th[t].pc = "idle"
    /\ IF req.kind = "records" /\ ~Validate(req)
       THEN th' = [th EXCEPT ![t] = [Idle EXCEPT !.pc = "done", !.req = req,
                                                !.resp = Unprocessable]]
       ELSE th' = [th EXCEPT ![t] = [Idle EXCEPT !.pc = "run", !.req = req]]
    /\ UNCHANGED df

\* filtered_df = df.copy(); if insname: filtered_df = filtered_df[...]
FilterInsname(t) ==
    /\ th[t].pc = "run"
    /\ th[t].req.kind = "records"
    /\ LET s == FilterStep(df, "INSNAME", th[t].req.insname)
       IN  /\ IF s.raised # ""
              THEN Finish(t, ServerError(s.raised))
              ELSE th' = [th EXCEPT ![t].pc = "filter_creddesc",
                                    ![t].filtered_df = s.frame]
           /\ df' = ModuleDf(df, s.frame)

\* if creddesc: filtered_df = filtered_df[...]
FilterCreddesc(t) ==
    /\ th[t].pc = "filter_creddesc"
    /\ LET s == FilterStep(th[t].filtered_df, "CREDDESC", th[t].req.creddesc)
       IN  /\ IF s.raised # ""
              THEN Finish(t, ServerError(s.raised))
              ELSE th' = [th EXCEPT ![t].pc = "paginate",
                                    ![t].filtered_df = s.frame]
           /\ df' = ModuleDf(df, s.frame)

\* start, end, results and the returned dict.
PaginateStep(t) ==
    /\ th[t].pc = "paginate"
    /\ Finish(t, Paginate(th[t].filtered_df, th[t].req.page, th[t].req.size))
    /\ UNCHANGED df

ByInsid(t) ==
    /\ th[t].pc = "run"
    /\ th[t].req.kind = "by_insid"
    /\ Finish(t, GetRecordsByInsid(df, th[t].req.insid))
    /\ UNCHANGED df

Stats(t) ==
    /\ th[t].pc = "run"
    /\ th[t].req.kind = "stats"
    /\ Finish(t, GetStats(df))
    /\ UNCHANGED df

Root(t) ==
    /\ th[t].pc = "run"
    /\ th[t].req.kind = "root"
    /\ Finish(t, ReadRoot(df))
    /\ UNCHANGED df

\* The response is sent and the worker is free again; nothing of the
\* request stays behind.
Complete(t) ==
    /\ th[t].pc = "done"
    /\ th' = [th EXCEPT ![t] = Idle]
    /\ UNCHANGED df

\* ---------------------------------------------------------- specifications
\* One worker, the full range of requests.
Init ==
    /\ df \in StartupFrames(MaxRows)
    /\ th = [t \in {1} |-> Idle]

Next ==
    \/ \E t \in {1}, req \in Requests : Receive(t, req)
    \/ \E t \in {1} : FilterInsname(t)
    \/ \E t \in {1} : FilterCreddesc(t)
    \/ \E t \in {1} : PaginateStep(t)
    \/ \E t \in {1} : ByInsid(t)
    \/ \E t \in {1} : Stats(t)
    \/ \E t \in {1} : Root(t)
    \/ \E t \in {1} : Complete(t)

Spec == Init /\ [][Next]_vars

\* NThreads workers serving requests at the same time.
InitConc ==
    /\ df \in StartupFrames(MaxConcRows)
    /\ th = [t \in 1..NThreads |-> Idle]

NextConc ==
    \/ \E t \in 1..NThreads, req \in ConcRequests : Receive(t, req)
    \/ \E t \in 1..NThreads : FilterInsname(t)
    \/ \E t \in 1..NThreads : FilterCreddesc(t)
    \/ \E t \in 1..NThreads : PaginateStep(t)
    \/ \E t \in 1..NThreads : ByInsid(t)
    \/ \E t \in 1..NThreads : Stats(t)
    \/ \E t \in 1..NThreads : Root(t)
    \/ \E t \in 1..NThreads : Complete(t)

SpecConc == InitConc /\ [][NextConc]_vars

\* ====================================================================
\* Properties
\* ====================================================================
Workers == DOMAIN th

Answered(t, kind) == th[t].pc = "done" /\ th[t].req.kind = kind

\* page >= 1 and size in 1..100.
InRange(req) == req.page >= 1 /\ req.size >= 1 /\ req.size <= 100

\* Text s contains text v as a literal substring, ignoring case.
ContainsText(s, v) ==
    \E off \in 0..(Len(s) - Len(v)) :
        \A j \in 1..Len(v) : Lower(v[j]) = Lower(s[off + j])

\* A row satisfies every filter the request supplies.
Satisfies(row, req) ==
    /\ req.insname.given => ContainsText(row.INSNAME, req.insname.val)
    /\ req.creddesc.given => ContainsText(row.CREDDESC, req.creddesc.val)

\* The rows of d satisfying the filters of req, in the order of d.
Matching(d, req) ==
    LET Keep(r) == Satisfies(r, req) IN SelectSeq(d.rows, Keep)

\* The elements of seq at zero-based positions [(page-1)*size, (page-1)*size+size).
WindowOf(seq, page, size) ==
    LET lo == (page - 1) * size
        hi == Min(lo + size, Len(seq))
    IN  IF lo < hi THEN [i \in 1..(hi - lo) |-> seq[lo + i]] ELSE <<>>

CountIn(seq, x) == Cardinality({i \in 1..Len(seq) : seq[i] = x})

\* C1: a GET /records request with page >= 1 and size in 1..100 is answered
\* with success; data is the window [(page-1)*size, (page-1)*size+size) of
\* the rows satisfying all supplied filters, in dataset order; total_filtered
\* counts those rows, size is the length of data and page echoes the request.
C1_RecordsContract ==
    \A t \in Workers :
        (Answered(t, "records") /\ InRange(th[t].req)) =>
            LET r == th[t].req
                F == Matching(df, r)
                resp == th[t].resp
            IN  /\ resp.status = 200
                /\ resp.body.data = WindowOf(F, r.page, r.size)
                /\ resp.body.total_filtered = Len(F)
                /\ resp.body.size = Len(resp.body.data)
                /\ resp.body.page = r.page

\* C2: when the file was missing at startup every request is answered as
\* over a table of zero rows: /records gives total_filtered 0 and no data,
\* /records/{insid} gives 404, /stats gives zeros and no levels, and no
\* request ends in another error.
C2_EmptyDataset ==
    (df = EmptyFrame) =>
        \A t \in Workers :
            LET r == th[t].req
                resp == th[t].resp
            IN  /\ (Answered(t, "records") /\ InRange(r)) =>
                       /\ resp.status = 200
                       /\ resp.body.total_filtered = 0
                       /\ resp.body.data = <<>>
                /\ Answered(t, "by_insid") => resp.status = 404
                /\ Answered(t, "stats") =>
                       /\ resp.status = 200
                       /\ resp.body.unique_institutions = 0
                       /\ resp.body.unique_credentials = 0
                       /\ resp.body.credential_levels = <<>>
                /\ Answered(t, "root") => resp.status = 200

\* C3: GET /records/{insid} returns {insid, count, data} with data the rows
\* whose INSID is insid and count their number when there is one at least;
\* with none it is a 404 whose detail names insid; never a success with
\* count 0.
C3_ByInsidContract ==
    \A t \in Workers :
        Answered(t, "by_insid") =>
            LET id == th[t].req.insid
                Keep(r) == r.INSID = id
                M == SelectSeq(df.rows, Keep)
                resp == th[t].resp
            IN  /\ M # <<>> =>
                       /\ resp.status = 200
                       /\ resp.body = [insid |-> id, count |-> Len(M), data |-> M]
                /\ M = <<>> =>
                       /\ resp.status = 404
                       /\ resp.body.detail =
                              [text |-> "No records found for INSID", insid |-> id]
                /\ ~(resp.status = 200 /\ resp.body.count = 0)

\* C4: a GET /records request with page >= 1 and size in 1..100 is answered
\* with success, with at most size rows and at most total_filtered rows, and
\* with no row when (page-1)*size is at or beyond total_filtered.
C4_WindowBounds ==
    \A t \in Workers :
        (Answered(t, "records") /\ InRange(th[t].req)) =>
            LET r == th[t].req
                resp == th[t].resp
            IN  /\ resp.status = 200
                /\ Len(resp.body.data) <= r.size
                /\ Len(resp.body.data) <= resp.body.total_filtered
                /\ (r.page - 1) * r.size >= resp.body.total_filtered =>
                       resp.body.data = <<>>

UpperArg(arg) == [arg EXCEPT !.val = StrUpper(@)]
LowerArg(arg) == [arg EXCEPT !.val = StrLower(@)]

\* C5: the filters of GET /records are case-insensitive substring tests: a
\* row is in the result iff its INSNAME (CREDDESC) contains the filter value
\* as a literal substring ignoring case, and the request with the value
\* upper-cased or lower-cased gets the same answer.
C5_CaseInsensitiveSubstring ==
    \A t \in Workers :
        (Answered(t, "records") /\ InRange(th[t].req)) =>
            LET r == th[t].req
                resp == th[t].resp
                whole == Response(df, [r EXCEPT !.page = 1, !.size = 100])
            IN  /\ resp.status = 200
                /\ whole.status = 200
                /\ \A i \in 1..Len(df.rows) :
                       Satisfies(df.rows[i], r) <=>
                           (\E j \in 1..Len(whole.body.data) :
                                whole.body.data[j] = df.rows[i])
                /\ resp.body.total_filtered = Len(Matching(df, r))
                /\ Response(df, [r EXCEPT !.insname = UpperArg(@)]) = resp
                /\ Response(df, [r EXCEPT !.insname = LowerArg(@)]) = resp
                /\ Response(df, [r EXCEPT !.creddesc = UpperArg(@)]) = resp
                /\ Response(df, [r EXCEPT !.creddesc = LowerArg(@)]) = resp

InsidsPresent == {df.rows[i].INSID : i \in 1..Len(df.rows)}

RECURSIVE SumCounts(_)
SumCounts(ids) ==
    IF ids = {} THEN 0
    ELSE LET id == CHOOSE x \in ids : TRUE
         IN  GetRecordsByInsid(df, id).body.count + SumCounts(ids \ {id})

\* C6: the answers of GET /records/{insid} over the distinct INSID values
\* of the dataset cover every row exactly once: each row is in the data of
\* exactly one id, as often as it is in the dataset, and the counts add up
\* to the number of rows.
C6_ByInsidCover ==
    /\ \A id \in InsidsPresent : GetRecordsByInsid(df, id).status = 200
    /\ \A i \in 1..Len(df.rows) :
           LET row == df.rows[i]
               holders == {id \in InsidsPresent :
                               CountIn(GetRecordsByInsid(df, id).body.data, row) > 0}
           IN  /\ Cardinality(holders) = 1
               /\ \A id \in holders :
                      CountIn(GetRecordsByInsid(df, id).body.data, row)
                          = CountIn(df.rows, row)
    /\ SumCounts(InsidsPresent) = Len(df.rows)
    /\ \A t \in Workers :
           (Answered(t, "by_insid") /\ th[t].req.insid \in InsidsPresent) =>
               /\ th[t].resp.status = 200
               /\ th[t].resp.body.count = Len(th[t].resp.body.data)
               /\ \A j \in 1..Len(th[t].resp.body.data) :
                      th[t].resp.body.data[j].INSID = th[t].req.insid

\* An id shared by two rows was looked up in a dataset holding another id too.
C6_Witness ==
    \E t \in Workers :
        /\ Answered(t, "by_insid")
        /\ th[t].resp.status = 200
        /\ th[t].resp.body.count >= 2
        /\ Cardinality(InsidsPresent) >= 2

\* C7: a GET /records request with page < 1, size < 1 or size > 100 is
\* answered 422 and never enters the route function: whenever a worker is
\* inside get_records, page >= 1 and 1 <= size <= 100, the slice start is
\* not negative, and no answer holds more than 100 rows.
C7_ValidatedBeforeHandler ==
    \A t \in Workers :
        th[t].req.kind = "records" =>
            LET r == th[t].req
            IN  /\ ~InRange(r) => (th[t].pc = "done" /\ th[t].resp.status = 422)
                /\ th[t].pc \in {"run", "filter_creddesc", "paginate"} =>
                       /\ InRange(r)
                       /\ PageStart(r.page, r.size) >= 0
                /\ (th[t].pc = "done" /\ th[t].resp.status = 200) =>
                       /\ InRange(r)
                       /\ Len(th[t].resp.body.data) <= 100

\* A request with page below 1 or size above 100 was answered 422.
C7_Witness ==
    \E t \in Workers :
        /\ Answered(t, "records")
        /\ th[t].resp.status = 422
        /\ (th[t].req.page < 1 \/ th[t].req.size > 100)

\* C8: no request changes the dataset, and under any interleaving of the
\* workers every answer is the answer the same request gets alone on the
\* same dataset.
C8_ReadOnlyAndPure ==
    [][ /\ df' = df
        /\ \A t \in Workers :
               th'[t].pc = "done" => th'[t].resp = Response(df, th'[t].req)
      ]_vars

\* One worker holds its answer to a filtered /records request on a loaded
\* table while another is still inside get_records with a different request.
C8_Witness ==
    \E t \in Workers, u \in Workers :
        /\ t # u
        /\ Answered(t, "records")
        /\ th[t].resp.status = 200
        /\ th[t].resp.body.total_filtered < Len(df.rows)
        /\ th[u].pc = "paginate"
        /\ th[u].req # th[t].req

FirstIndex(seq, x) == CHOOSE i \in 1..Len(seq) : seq[i] = x /\ \A j \in 1..(i - 1) : seq[j] # x

\* levels lists the values of seq once each, in the order of their first
\* occurrence.
IsFirstOccurrenceList(levels, seq) ==
    /\ {levels[i] : i \in 1..Len(levels)} = {seq[i] : i \in 1..Len(seq)}
    /\ \A i \in 1..Len(levels), j \in 1..Len(levels) :
           i < j => FirstIndex(seq, levels[i]) < FirstIndex(seq, levels[j])

\* C9: GET /stats is answered with the number of distinct INSNAME values,
\* the number of distinct CREDDESC values and the distinct CREDLEV values in
\* the order of their first occurrence, whatever the dataset.
C9_StatsContract ==
    \A t \in Workers :
        Answered(t, "stats") =>
            LET resp == th[t].resp
                n == Len(df.rows)
            IN  /\ resp.status = 200
                /\ resp.body.unique_institutions =
                       Cardinality({df.rows[i].INSNAME : i \in 1..n})
                /\ resp.body.unique_credentials =
                       Cardinality({df.rows[i].CREDDESC : i \in 1..n})
                /\ IsFirstOccurrenceList(resp.body.credential_levels,
                                         [i \in 1..n |-> df.rows[i].CREDLEV])

RECURSIVE ConcatPages(_, _, _)
ConcatPages(d, req, k) ==
    IF k = 0 THEN <<>>
    ELSE ConcatPages(d, req, k - 1) \o Response(d, [req EXCEPT !.page = k]).body.data

\* C10: for fixed filters and size the pages of GET /records partition the
\* filtered sequence: pages 1..k, k = ceil(total_filtered / size), put
\* together are the filtered sequence; a page before k has size rows, page
\* k has 1..size rows, a page after k has none.
C10_PagesPartition ==
    \A t \in Workers :
        (Answered(t, "records") /\ InRange(th[t].req)) =>
            LET r == th[t].req
                F == Matching(df, r)
                k == (Len(F) + r.size - 1) \div r.size
                PageResp(p) == IF p = r.page THEN th[t].resp
                               ELSE Response(df, [r EXCEPT !.page = p])
            IN  /\ \A p \in (1..(k + 1)) \cup {r.page} : PageResp(p).status = 200
                /\ \A p \in (1..(k + 1)) \cup {r.page} :
                       LET len == Len(PageResp(p).body.data)
                       IN  /\ p < k => len = r.size
                           /\ p = k => (1 <= len /\ len <= r.size)
                           /\ p > k => len = 0
                /\ ConcatPages(df, r, k) = F

\* ---------------------------------------------------------- what the code does keep
\* The file was read at startup.
Loaded == df.columns = Columns

\* No filter value in flight holds a character the pattern language reads
\* as an operator.
LiteralFilters ==
    \A t \in Workers :
        \A arg \in {th[t].req.insname, th[t].req.creddesc} :
            \A i \in 1..Len(arg.val) : arg.val[i] \notin {".", "("}

\* On a loaded table and with literal filter values, get_records answers as
\* C1, C4, C5 and C10 state.
RecordsContractsWhenLiteral ==
    (Loaded /\ LiteralFilters) =>
        /\ C1_RecordsContract
        /\ C4_WindowBounds
        /\ C5_CaseInsensitiveSubstring
        /\ C10_PagesPartition

\* On a loaded table, get_records_by_insid and get_stats answer as C3 and
\* C9 state.
LookupContractsWhenLoaded ==
    Loaded => (C3_ByInsidContract /\ C9_StatsContract)

\* Whatever the table and the filters, a success answer of get_records holds
\* the window [(page-1)*size, (page-1)*size+size) of the rows its filters
\* kept, and the pagination step itself never fails.
WindowOfFilteredRows ==
    \A t \in Workers :
        /\ (Answered(t, "records") /\ th[t].resp.status = 200) =>
               LET r == th[t].req
                   body == th[t].resp.body
               IN  /\ body.data = WindowOf(th[t].filtered_df.rows, r.page, r.size)
                   /\ body.total_filtered = Len(th[t].filtered_df.rows)
                   /\ body.size = Len(body.data)
                   /\ body.page = r.page
        /\ (Answered(t, "records") /\ th[t].resp.status = 500) =>
               (Truthy(th[t].req.insname) \/ Truthy(th[t].req.creddesc))

====
